---- MODULE Spec2Model ----
(***************************************************************************)
(* The yashiki -> ranma workspace bridge                                   *)
(* (examples/yashiki-workspace/plugins/yashiki_bridge.py).                 *)
(*                                                                         *)
(* One process runs run(): it spawns the event source, builds a fresh      *)
(* session state, applies every line of the source's output to that state  *)
(* and drives the render target with add / set / remove commands; when the *)
(* source ends it sleeps and starts over.                                  *)
(*                                                                         *)
(* Strings that hold a number (display and window identities, made by      *)
(* str(...)) are sequences of decimal digits, so that sorted() orders them *)
(* as Python orders strings.  Dicts are functions; the one place where the *)
(* code reads a dict's insertion order is noted at DisplayRemoved.         *)
(*                                                                         *)
(* Two polled plugins are modelled beside the bridge, each with variables  *)
(* of its own and a specification that moves only those: the privacy       *)
(* indicator of examples/mic-camera/plugins/mic_camera.py and the          *)
(* now-playing section of examples/island/plugins/island.py and            *)
(* examples/unified-transparent/plugins/unified-transparent.py.            *)
(***************************************************************************)
EXTENDS Integers, Sequences, FiniteSets, TLC

VARIABLES
    pc,               \* where run() stands: "spawn", "streaming" or "sleep"
    session,          \* number of the connection attempt run() is in
    displays,         \* state["displays"]: display identity -> its record
    windows,          \* state["windows"]
    focused_display,  \* state["focused_display"]
    slot_assignment,  \* state["slot_assignment"]: slot -> display identity
    created_slots,    \* state["created_slots"]
    slot_sizes,       \* state["slot_sizes"]: slot -> name of a SIZES entry
    target,           \* the render target: what was added and not removed since
    cmds,             \* the add and remove commands issued for the last line read
    pass,             \* how the last line read was handled: "reconcile" (assign_slots,
                      \* ensure_display_items, update_all), "update" (update_all),
                      \* "ignored" (process_event returned False), "blank",
                      \* "undecodable", "raised" (an exception left the loop);
                      \* "none" before the first line of a connection
    source,           \* the event source, where a specification follows what it
                      \* sends: the snapshot it sent last and the events it is
                      \* still to send
    prev,             \* mic_camera.py: run()'s prev, the state update returned
    privacy,          \* mic_camera.py: the elements of the render target
    samples,          \* mic_camera.py: what check_devices has returned so far
    plugin,           \* which of island.py and unified-transparent.py runs, "none"
                      \* before its setup()
    np_visible,       \* run()'s np_visible
    bar,              \* the elements of that plugin's render target, with labels
    np_cmds,          \* the commands of the last update_np
    np_sample         \* what get_now_playing returned last: << title, artist >>

vars == << pc, session, displays, windows, focused_display, slot_assignment,
           created_slots, slot_sizes, target, cmds, pass, source,
           prev, privacy, samples,
           plugin, np_visible, bar, np_cmds, np_sample >>

(***************************************************************************)
(* Program constants.                                                      *)
(***************************************************************************)
MAX_DISPLAYS == 3

NUM_TAGS == 10

INTERNAL_DISPLAY_ID == << 1 >>

InitialFocus == << 0 >>

\* Variant: the compact size has a narrower indicator bar.
SIZES_compact_bar ==
    [ default |-> [ padding_h |-> 4, gap |-> 2, margin_h |-> 12, show_mode |-> TRUE,
                    ul_bar_w |-> 8, ul_bar_h |-> 2, dot_w |-> 3, dot_h |-> 3 ],
      compact |-> [ padding_h |-> 2, gap |-> 1, margin_h |-> 4, show_mode |-> FALSE,
                    ul_bar_w |-> 6, ul_bar_h |-> 2, dot_w |-> 3, dot_h |-> 3 ] ]

\* the keys of _BASE that compact overrides or update_all reads
SIZES ==
    [ default |-> [ padding_h |-> 4, gap |-> 2, margin_h |-> 12, show_mode |-> TRUE,
                    ul_bar_w |-> 8, ul_bar_h |-> 2, dot_w |-> 3, dot_h |-> 3 ],
      compact |-> [ padding_h |-> 2, gap |-> 1, margin_h |-> 4, show_mode |-> FALSE,
                    ul_bar_w |-> 8, ul_bar_h |-> 2, dot_w |-> 3, dot_h |-> 3 ] ]

(***************************************************************************)
(* Bounds of the model.                                                    *)
(***************************************************************************)
MaxSessions == 2

MaxDisplayId == 9

MaxTagMask == 1

MaxWindowId == 1

SlotsMaxDisplayId == 11

(***************************************************************************)
(* Python's str(int), string comparison and sorted().                      *)
(***************************************************************************)
RECURSIVE Str(_)
Str(n) == IF n < 10 THEN << n >> ELSE Str(n \div 10) \o << n % 10 >>

RECURSIVE StrLess(_, _)
StrLess(a, b) ==
    IF a = << >> THEN b # << >>
    ELSE IF b = << >> THEN FALSE
    ELSE IF Head(a) # Head(b) THEN Head(a) < Head(b)
    ELSE StrLess(Tail(a), Tail(b))

RECURSIVE sorted(_)
sorted(S) ==
    IF S = {} THEN << >>
    ELSE LET m == CHOOSE x \in S : \A y \in S \ {x} : StrLess(x, y)
         IN  << m >> \o sorted(S \ {m})

RECURSIVE Ascending(_)
Ascending(S) ==
    IF S = {} THEN << >>
    ELSE LET m == CHOOSE x \in S : \A y \in S : x <= y
         IN  << m >> \o Ascending(S \ {m})

Range(f) == { f[x] : x \in DOMAIN f }

Restrict(f, S) == [ x \in S |-> f[x] ]

(***************************************************************************)
(* assign_slots                                                            *)
(***************************************************************************)
\* Variants of the loop of assign_slots: free_slots.pop() in place of
\* free_slots.pop(0), and a break after the first pairing.
RECURSIVE AssignLoopPopLast(_, _, _)
AssignLoopPopLast(assignment, free_slots, todo) ==
    IF todo = << >> \/ free_slots = << >> THEN assignment
    ELSE LET slot == free_slots[Len(free_slots)]
         IN  AssignLoopPopLast(
                [ s \in DOMAIN assignment \cup {slot} |->
                    IF s = slot THEN Head(todo) ELSE assignment[s] ],
                SubSeq(free_slots, 1, Len(free_slots) - 1), Tail(todo))

AssignLoopOnce(assignment, free_slots, todo) ==
    IF todo = << >> \/ free_slots = << >> THEN assignment
    ELSE [ s \in DOMAIN assignment \cup { Head(free_slots) } |->
             IF s = Head(free_slots) THEN Head(todo) ELSE assignment[s] ]

RECURSIVE AssignLoop(_, _, _)
AssignLoop(assignment, free_slots, todo) ==
    IF todo = << >> \/ free_slots = << >> THEN assignment
    ELSE AssignLoop(
            [ s \in DOMAIN assignment \cup { Head(free_slots) } |->
                IF s = Head(free_slots) THEN Head(todo) ELSE assignment[s] ],
            Tail(free_slots), Tail(todo))

\* Variants of assign_slots: one that hands free slots to every live display,
\* assigned or not; one without the loop that frees the slots of vanished
\* displays; one that assigns from scratch on every call; one whose range of
\* slots ends one short.
assign_slots_all_displays(ds, assignment) ==
    LET current_displays == DOMAIN ds
        kept == Restrict(assignment,
                         { s \in DOMAIN assignment : assignment[s] \in current_displays })
        free_slots == Ascending({ s \in 1..MAX_DISPLAYS : s \notin DOMAIN kept })
    IN  AssignLoop(kept, free_slots, sorted(current_displays))

assign_slots_keep_vanished(ds, assignment) ==
    LET current_displays == DOMAIN ds
        assigned == Range(assignment)
        free_slots == Ascending({ s \in 1..MAX_DISPLAYS : s \notin DOMAIN assignment })
    IN  AssignLoop(assignment, free_slots, sorted(current_displays \ assigned))

assign_slots_from_scratch(ds, assignment) ==
    AssignLoop(<< >>, Ascending(1..MAX_DISPLAYS), sorted(DOMAIN ds))

assign_slots_short_range(ds, assignment) ==
    LET current_displays == DOMAIN ds
        kept == Restrict(assignment,
                         { s \in DOMAIN assignment : assignment[s] \in current_displays })
        assigned == Range(kept)
        free_slots == Ascending({ s \in 1..(MAX_DISPLAYS - 1) : s \notin DOMAIN kept })
    IN  AssignLoop(kept, free_slots, sorted(current_displays \ assigned))

assign_slots(ds, assignment) ==
    LET current_displays == DOMAIN ds
        kept == Restrict(assignment,
                         { s \in DOMAIN assignment : assignment[s] \in current_displays })
        assigned == Range(kept)
        free_slots == Ascending({ s \in 1..MAX_DISPLAYS : s \notin DOMAIN kept })
    IN  AssignLoop(kept, free_slots, sorted(current_displays \ assigned))

(***************************************************************************)
(* Render commands.  One record stands for the commands of one iteration   *)
(* of a loop of the code, which are issued together and in a fixed order:  *)
(*   add    - the ranma_add calls of one slot (container ws.d<slot> with   *)
(*            display=did, then per tag the box with its on_click          *)
(*            "--output did" and its five children, then sep and mode when *)
(*            the size shows the mode);                                    *)
(*   remove - ranma_remove("ws.d<slot>");                                  *)
(*   set    - the three ranma_set calls of one tag of one slot.            *)
(***************************************************************************)
AddCmd(slot, did, sz) == [ op |-> "add", slot |-> slot, display |-> did, sz |-> sz ]

RemoveCmd(slot) == [ op |-> "remove", slot |-> slot ]

SetCmd(slot, tag, class, focused, sz) ==
    [ op |-> "set", slot |-> slot, tag |-> tag, class |-> class,
      focused |-> focused, sz |-> sz ]

\* The arguments of the three ranma_set calls that a set record stands for:
\* the palette key of the label colour, of the background and of the
\* indicator, and the indicator's width, height and corner radius ("" and 0
\* where the call passes none).
SetArgs(c) ==
    LET sz == SIZES[c.sz]
    IN  IF c.class = "active"
        THEN [ label_color |-> IF c.focused THEN "label_active"
                                            ELSE "label_active_unfocused",
               bg |-> IF c.focused THEN "bg_active_pill"
                                   ELSE "bg_active_pill_unfocused",
               ind |-> "accent",
               width |-> sz.ul_bar_w, height |-> sz.ul_bar_h, corner_radius |-> 1 ]
        ELSE IF c.class = "occupied"
        THEN [ label_color |-> IF c.focused THEN "label_occupied"
                                            ELSE "label_occupied_unfocused",
               bg |-> "",
               ind |-> IF c.focused THEN "dot_color" ELSE "dot_color_unfocused",
               width |-> sz.dot_w, height |-> sz.dot_h, corner_radius |-> 2 ]
        ELSE [ label_color |-> IF c.focused THEN "label_vacant"
                                            ELSE "label_vacant_unfocused",
               bg |-> "", ind |-> "",
               width |-> 0, height |-> 0, corner_radius |-> 0 ]

sizes_for_display(did) == IF did = INTERNAL_DISPLAY_ID THEN "compact" ELSE "default"

(***************************************************************************)
(* ensure_display_items: the commands it issues, and what it leaves in     *)
(* slot_sizes.  It leaves set(active_slots) in created_slots.              *)
(***************************************************************************)
ensure_adds(assignment, existing_slots) ==
    LET order == Ascending(DOMAIN assignment \ existing_slots)
    IN  [ i \in DOMAIN order |->
            AddCmd(order[i], assignment[order[i]], sizes_for_display(assignment[order[i]])) ]

\* Variant: every slot that existed before the pass is removed.
ensure_removes_all_existing(assignment, existing_slots) ==
    LET order == Ascending(existing_slots)
    IN  [ i \in DOMAIN order |-> RemoveCmd(order[i]) ]

ensure_removes(assignment, existing_slots) ==
    LET order == Ascending(existing_slots \ DOMAIN assignment)
    IN  [ i \in DOMAIN order |-> RemoveCmd(order[i]) ]

ensure_display_items(assignment, existing_slots) ==
    ensure_adds(assignment, existing_slots) \o ensure_removes(assignment, existing_slots)

\* Variant: the slots of this pass are added to the set, none is dropped.
ensure_created_slots_union(assignment, existing_slots) ==
    existing_slots \cup DOMAIN assignment

ensure_created_slots(assignment, existing_slots) == DOMAIN assignment

ensure_slot_sizes(assignment, existing_slots, sizes) ==
    LET added == DOMAIN assignment \ existing_slots
        removed == existing_slots \ DOMAIN assignment
    IN  [ s \in (DOMAIN sizes \cup added) \ removed |->
            IF s \in added THEN sizes_for_display(assignment[s]) ELSE sizes[s] ]

(***************************************************************************)
(* The render target, as far as the bridge's own commands determine it:    *)
(* the groups of elements added and not removed since.  Removing the       *)
(* container ws.d<slot> removes what was added under it.                   *)
(***************************************************************************)
ApplyCmd(t, c) ==
    IF c.op = "add" THEN t \cup { [ slot |-> c.slot, display |-> c.display, sz |-> c.sz ] }
    ELSE IF c.op = "remove" THEN { e \in t : e.slot # c.slot }
    ELSE t

RECURSIVE ApplyCmds(_, _)
ApplyCmds(t, cs) == IF cs = << >> THEN t ELSE ApplyCmds(ApplyCmd(t, Head(cs)), Tail(cs))

\* The containers ws.d<slot> of the target with their display affinity, and
\* the tag boxes ws.d<slot>.<tag> with the output their click action names.
TargetContainers == { [ slot |-> g.slot, display |-> g.display ] : g \in target }

TargetTagBoxes ==
    { [ slot |-> g.slot, tag |-> tag_num, on_click_output |-> g.display ] :
        g \in target, tag_num \in 1..NUM_TAGS }

(***************************************************************************)
(* update_all                                                              *)
(***************************************************************************)
Bit(v, tag_num) == (v \div (2 ^ (tag_num - 1))) % 2 = 1

\* Variant: the windows of every display count towards did.
occupied_any_display(ws, did) ==
    { k \in 1..NUM_TAGS : \E w \in DOMAIN ws : Bit(ws[w].tags, k) }

\* the bitwise or of the tags of the windows whose output_id is did
occupied_per_display(ws, did) ==
    { k \in 1..NUM_TAGS :
        \E w \in DOMAIN ws : ws[w].output_id = did /\ Bit(ws[w].tags, k) }

\* Variant: the occupied branch is tested before the active branch.
TagClassOccupiedFirst(is_active, is_occupied) ==
    IF is_occupied THEN "occupied" ELSE IF is_active THEN "active" ELSE "vacant"

TagClass(is_active, is_occupied) ==
    IF is_active THEN "active" ELSE IF is_occupied THEN "occupied" ELSE "vacant"

update_slot(ds, ws, focus, assignment, sizes, slot) ==
    LET did == assignment[slot]
        sz == IF slot \in DOMAIN sizes THEN sizes[slot] ELSE "default"
        visible_tags == IF did \in DOMAIN ds THEN ds[did].visible_tags ELSE 0
        display_occupied == occupied_per_display(ws, did)
        focused == (did = focus)
    IN  [ tag_num \in 1..NUM_TAGS |->
            SetCmd(slot, tag_num,
                   TagClass(Bit(visible_tags, tag_num), tag_num \in display_occupied),
                   focused, sz) ]

RECURSIVE update_slots(_, _, _, _, _, _)
update_slots(ds, ws, focus, assignment, sizes, order) ==
    IF order = << >> THEN << >>
    ELSE update_slot(ds, ws, focus, assignment, sizes, Head(order))
         \o update_slots(ds, ws, focus, assignment, sizes, Tail(order))

update_all(ds, ws, focus, assignment, sizes) ==
    update_slots(ds, ws, focus, assignment, sizes,
                 Ascending({ s \in 1..MAX_DISPLAYS : s \in DOMAIN assignment }))

(***************************************************************************)
(* process_snapshot                                                        *)
(***************************************************************************)
\* the entry of a list that a dict comprehension keeps for key k: the last one
LastFor(list, k) ==
    list[CHOOSE i \in DOMAIN list :
            /\ Str(list[i].id) = k
            /\ \A j \in DOMAIN list : Str(list[j].id) = k => j <= i]

\* Variant: the snapshot's displays are merged into the displays tracked.
DisplaysOfMerged(list) ==
    [ d \in DOMAIN displays \cup { Str(list[i].id) : i \in DOMAIN list } |->
        IF \E i \in DOMAIN list : Str(list[i].id) = d
        THEN [ visible_tags |-> LastFor(list, d).visible_tags ]
        ELSE displays[d] ]

DisplaysOf(list) ==
    [ d \in { Str(list[i].id) : i \in DOMAIN list } |->
        [ visible_tags |-> LastFor(list, d).visible_tags ] ]

WindowsOf(list) ==
    [ w \in { Str(list[i].id) : i \in DOMAIN list } |->
        [ tags |-> LastFor(list, w).tags, output_id |-> Str(LastFor(list, w).output_id) ] ]

\* Variant: d.setdefault(key, value), which keeps the record of a known key.
PutIfAbsent(d, key, value) ==
    [ k \in DOMAIN d \cup {key} |-> IF k \in DOMAIN d THEN d[k] ELSE value ]

\* d[key] = value, and d.pop(key, None)
Put(d, key, value) == [ k \in DOMAIN d \cup {key} |-> IF k = key THEN value ELSE d[k] ]

Pop(d, key) == [ k \in DOMAIN d \ {key} |-> d[k] ]

(***************************************************************************)
(* The two ways run() ends the handling of a line that changed the state:  *)
(* with assign_slots and ensure_display_items before update_all (snapshot, *)
(* display_added, display_updated, display_removed), or with update_all    *)
(* alone.  update_all is the handler's last call and writes nothing to the *)
(* state, so the set commands of the last line are update_all of the state *)
(* the handler left (SetCmds); a set command changes no element's          *)
(* existence in the target.                                                *)
(***************************************************************************)
Reconcile(ds, ws, focus) ==
    LET assignment == assign_slots(ds, slot_assignment)
        sizes == ensure_slot_sizes(assignment, created_slots, slot_sizes)
        issued == ensure_display_items(assignment, created_slots)
    IN  /\ displays' = ds
        /\ windows' = ws
        /\ focused_display' = focus
        /\ slot_assignment' = assignment
        /\ created_slots' = ensure_created_slots(assignment, created_slots)
        /\ slot_sizes' = sizes
        /\ cmds' = issued
        /\ pass' = "reconcile"
        /\ target' = ApplyCmds(target, issued)
        /\ UNCHANGED << pc, session >>

\* Variant: a line that leaves displays, windows and focus as they were is
\* skipped like an ignored line.
RenderIfChanged(ds, ws, focus) ==
    /\ displays' = ds
    /\ windows' = ws
    /\ focused_display' = focus
    /\ cmds' = << >>
    /\ pass' = IF << ds, ws, focus >> = << displays, windows, focused_display >>
               THEN "ignored" ELSE "update"
    /\ UNCHANGED << pc, session, slot_assignment, created_slots, slot_sizes, target >>

Render(ds, ws, focus) ==
    /\ displays' = ds
    /\ windows' = ws
    /\ focused_display' = focus
    /\ cmds' = << >>
    /\ pass' = "update"
    /\ UNCHANGED << pc, session, slot_assignment, created_slots, slot_sizes, target >>

(***************************************************************************)
(* run(): one action per line kind the event source can send.              *)
(***************************************************************************)
Snapshot(dlists, wlists, focus_ids) ==
    /\ pc = "streaming"
    /\ \E dl \in dlists, wl \in wlists, f \in focus_ids :
          Reconcile(DisplaysOf(dl), WindowsOf(wl), Str(f))

TagsChanged(ids, masks) ==
    /\ pc = "streaming"
    /\ \E id \in ids, vt \in masks :
          LET did == Str(id)
          IN  Render(IF did \in DOMAIN displays
                     THEN Put(displays, did, [ visible_tags |-> vt ]) ELSE displays,
                     windows, focused_display)

\* Variant: the focus follows only an id that names a tracked display.
DisplayFocusedIfTracked(ids) ==
    /\ pc = "streaming"
    /\ \E id \in ids :
          Render(displays, windows,
                 IF Str(id) \in DOMAIN displays THEN Str(id) ELSE focused_display)

DisplayFocused(ids) ==
    /\ pc = "streaming"
    /\ \E id \in ids : Render(displays, windows, Str(id))

\* window_created and window_updated
WindowUpsert(wids, masks, ids) ==
    /\ pc = "streaming"
    /\ \E id \in wids, tags \in masks, out \in ids :
          Render(displays,
                 Put(windows, Str(id), [ tags |-> tags, output_id |-> Str(out) ]),
                 focused_display)

WindowDestroyed(wids) ==
    /\ pc = "streaming"
    /\ \E id \in wids :
          Render(displays, Pop(windows, Str(id)), focused_display)

\* display_added and display_updated
DisplayUpsert(ids, masks, flags) ==
    /\ pc = "streaming"
    /\ \E id \in ids, vt \in masks, is_focused \in flags :
          Reconcile(Put(displays, Str(id), [ visible_tags |-> vt ]), windows,
                    IF is_focused THEN Str(id) ELSE focused_display)

\* Variant: display_removed drops the windows of the removed display.
DisplayRemovedDropsWindows(ids) ==
    /\ pc = "streaming"
    /\ \E id \in ids :
          LET removed_id == Str(id)
              ds == Pop(displays, removed_id)
              ws == Restrict(windows, { w \in DOMAIN windows :
                                         windows[w].output_id # removed_id })
          IN  IF focused_display = removed_id /\ DOMAIN ds # {}
              THEN \E first \in DOMAIN ds : Reconcile(ds, ws, first)
              ELSE Reconcile(ds, ws, focused_display)

\* Variant: display_removed without the fallback of the focus.
DisplayRemovedKeepsFocus(ids) ==
    /\ pc = "streaming"
    /\ \E id \in ids : Reconcile(Pop(displays, Str(id)), windows, focused_display)

\* next(iter(state["displays"])) is the remaining display inserted earliest.
\* The model keeps no insertion order and lets it be any remaining display:
\* a snapshot that lists the same displays in another order re-orders the
\* dict and changes nothing else of the state, so each of them can be first.
DisplayRemoved(ids) ==
    /\ pc = "streaming"
    /\ \E id \in ids :
          LET removed_id == Str(id)
              ds == Pop(displays, removed_id)
          IN  IF focused_display = removed_id /\ DOMAIN ds # {}
              THEN \E first \in DOMAIN ds : Reconcile(ds, windows, first)
              ELSE Reconcile(ds, windows, focused_display)

\* Variant: process_event returns True for a type it does not recognize.
UnknownEventRenders ==
    /\ pc = "streaming"
    /\ cmds' = << >>
    /\ pass' = "update"
    /\ UNCHANGED << pc, session, displays, windows, focused_display, slot_assignment,
                    created_slots, slot_sizes, target >>

\* an event of no recognized type: process_event returns False, run() continues
UnknownEvent ==
    /\ pc = "streaming"
    /\ cmds' = << >>
    /\ pass' = "ignored"
    /\ UNCHANGED << pc, session, displays, windows, focused_display, slot_assignment,
                    created_slots, slot_sizes, target >>

\* line.strip() is empty: run() goes on to the next line
BlankLine ==
    /\ pc = "streaming"
    /\ cmds' = << >>
    /\ pass' = "blank"
    /\ UNCHANGED << pc, session, displays, windows, focused_display, slot_assignment,
                    created_slots, slot_sizes, target >>

\* Variant: a line that does not decode is handed on to update_all.
InvalidJsonRenders ==
    /\ pc = "streaming"
    /\ cmds' = << >>
    /\ pass' = "update"
    /\ UNCHANGED << pc, session, displays, windows, focused_display, slot_assignment,
                    created_slots, slot_sizes, target >>

\* json.loads raises JSONDecodeError: run() goes on to the next line
InvalidJson ==
    /\ pc = "streaming"
    /\ cmds' = << >>
    /\ pass' = "undecodable"
    /\ UNCHANGED << pc, session, displays, windows, focused_display, slot_assignment,
                    created_slots, slot_sizes, target >>

\* A line that decodes to an object without "type", a tags_changed without
\* "display_id", a window_created without "window": the subscript raises
\* KeyError before anything is written to the state.  No handler between the
\* subscript and the `except Exception` of run() catches it, so the for loop
\* over the lines of this connection is left and run() goes to sleep.
MissingField ==
    /\ pc = "streaming"
    /\ pc' = "sleep"
    /\ cmds' = << >>
    /\ pass' = "raised"
    /\ UNCHANGED << session, displays, windows, focused_display, slot_assignment,
                    created_slots, slot_sizes, target >>

(***************************************************************************)
(* run(): the supervisor loop.                                             *)
(***************************************************************************)
\* Variant: the state dict is built once, before the loop.
SpawnKeepsState ==
    /\ pc = "spawn"
    /\ pc' = "streaming"
    /\ cmds' = << >>
    /\ pass' = "none"
    /\ UNCHANGED << session, displays, windows, focused_display, slot_assignment,
                    created_slots, slot_sizes, target >>

Spawn ==
    /\ pc = "spawn"
    /\ pc' = "streaming"
    /\ displays' = << >>
    /\ windows' = << >>
    /\ focused_display' = InitialFocus
    /\ slot_assignment' = << >>
    /\ created_slots' = {}
    /\ slot_sizes' = << >>
    /\ cmds' = << >>
    /\ pass' = "none"
    /\ UNCHANGED << session, target >>

SpawnFails ==
    /\ pc = "spawn"
    /\ pc' = "sleep"
    /\ UNCHANGED << session, displays, windows, focused_display, slot_assignment,
                    created_slots, slot_sizes, target, cmds, pass >>

EndOfStream ==
    /\ pc = "streaming"
    /\ pc' = "sleep"
    /\ UNCHANGED << session, displays, windows, focused_display, slot_assignment,
                    created_slots, slot_sizes, target, cmds, pass >>

\* Variant: an exception raised while a line is processed ends run().
SleepUnlessRaised ==
    /\ pc = "sleep"
    /\ pass # "raised"
    /\ session < MaxSessions
    /\ pc' = "spawn"
    /\ session' = session + 1
    /\ UNCHANGED << displays, windows, focused_display, slot_assignment,
                    created_slots, slot_sizes, target, cmds, pass >>

\* time.sleep(2) and the next iteration of `while True`; the model counts the
\* connection attempts and stops after MaxSessions of them.
Sleep ==
    /\ pc = "sleep"
    /\ session < MaxSessions
    /\ pc' = "spawn"
    /\ session' = session + 1
    /\ UNCHANGED << displays, windows, focused_display, slot_assignment,
                    created_slots, slot_sizes, target, cmds, pass >>

\* A snapshot line, and the event source: one of which a specification
\* follows nothing, and one that has just sent the snapshot line of the
\* displays list dl, the windows list wl and the focused_display_id f.
SnapshotLine(dl, wl, f) == [ displays |-> dl, windows |-> wl, focused_display_id |-> f ]

Unscripted == [ kind |-> "free", snapshot |-> SnapshotLine(<< >>, << >>, 0), pending |-> {} ]

SentSnapshot(dl, wl, f) ==
    [ kind |-> "sent", snapshot |-> SnapshotLine(dl, wl, f), pending |-> {} ]

\* run() reads a snapshot line that the specification keeps
SendSnapshot(dlists, wlists, focus_ids) ==
    \E dl \in dlists, wl \in wlists, f \in focus_ids :
        /\ Snapshot({dl}, {wl}, {f})
        /\ source' = SentSnapshot(dl, wl, f)

Init ==
    /\ pc = "spawn"
    /\ session = 1
    /\ displays = << >>
    /\ windows = << >>
    /\ focused_display = InitialFocus
    /\ slot_assignment = << >>
    /\ created_slots = {}
    /\ slot_sizes = << >>
    /\ target = {}
    /\ cmds = << >>
    /\ pass = "none"
    /\ source = Unscripted
    /\ prev = << FALSE, FALSE >>
    /\ privacy = {}
    /\ samples = << >>
    /\ plugin = "none"
    /\ np_visible = FALSE
    /\ bar = {}
    /\ np_cmds = << >>
    /\ np_sample = << << >>, << >> >>

\* what the bridge leaves alone: the event source and the polled plugins
mic_camera == << prev, privacy, samples >>

now_playing == << plugin, np_visible, bar, np_cmds, np_sample >>

polled == << mic_camera, now_playing >>

others == << source, polled >>

\* the variables of the bridge
bridge == << pc, session, displays, windows, focused_display, slot_assignment,
            created_slots, slot_sizes, target, cmds, pass >>

\* The set commands of the last line read, and all its commands in order.
SetCmds ==
    IF pass \in { "reconcile", "update" }
    THEN update_all(displays, windows, focused_display, slot_assignment, slot_sizes)
    ELSE << >>

Issued == cmds \o SetCmds

(***************************************************************************)
(* What the event source sends.                                            *)
(***************************************************************************)
DisplayIdsUpTo(maxId) == {1} \cup 9..maxId

\* the lists of displays and of windows of a snapshot, in ascending id order
RECURSIVE DisplayLists(_, _)
DisplayLists(ids, masks) ==
    { << >> } \cup
    UNION { { << [ id |-> id, visible_tags |-> vt ] >> \o rest :
                rest \in DisplayLists({ x \in ids : x > id }, masks) } :
            << id, vt >> \in ids \X masks }

RECURSIVE WindowLists(_, _, _)
WindowLists(wids, masks, ids) ==
    { << >> } \cup
    UNION { { << [ id |-> w, tags |-> tags, output_id |-> out ] >> \o rest :
                rest \in WindowLists({ x \in wids : x > w }, masks, ids) } :
            << w, tags, out >> \in wids \X masks \X ids }

\* Spec: the whole of run() over a small event source.
DisplayIds == DisplayIdsUpTo(MaxDisplayId)

TagMasks == 0..MaxTagMask

WindowIds == 1..MaxWindowId

SnapshotDisplays == DisplayLists(DisplayIds, TagMasks)

SnapshotWindows == WindowLists(WindowIds, TagMasks, DisplayIds)

Next ==
    \/ Spawn /\ UNCHANGED others
    \/ SpawnFails /\ UNCHANGED others
    \/ EndOfStream /\ UNCHANGED others
    \/ Sleep /\ UNCHANGED others
    \/ Snapshot(SnapshotDisplays, SnapshotWindows, DisplayIds) /\ UNCHANGED others
    \/ TagsChanged(DisplayIds, TagMasks) /\ UNCHANGED others
    \/ DisplayFocused(DisplayIds) /\ UNCHANGED others
    \/ WindowUpsert(WindowIds, TagMasks, DisplayIds) /\ UNCHANGED others
    \/ WindowDestroyed(WindowIds) /\ UNCHANGED others
    \/ DisplayUpsert(DisplayIds, TagMasks, BOOLEAN) /\ UNCHANGED others
    \/ DisplayRemoved(DisplayIds) /\ UNCHANGED others
    \/ UnknownEvent /\ UNCHANGED others
    \/ BlankLine /\ UNCHANGED others
    \/ InvalidJson /\ UNCHANGED others
    \/ MissingField /\ UNCHANGED others

Spec == Init /\ [][Next]_vars

\* SpecSlots: one session of display topology events over more displays than
\* slots; no event marks a display focused and the snapshots name focus 0.
SlotsDisplayIds == DisplayIdsUpTo(SlotsMaxDisplayId)

SlotsTagMasks == {1}

SlotsSnapshotDisplays == DisplayLists(SlotsDisplayIds, SlotsTagMasks)

NextSlots ==
    \/ Spawn /\ UNCHANGED others
    \/ Snapshot(SlotsSnapshotDisplays, { << >> }, {0}) /\ UNCHANGED others
    \/ DisplayUpsert(SlotsDisplayIds, SlotsTagMasks, {FALSE}) /\ UNCHANGED others
    \/ DisplayRemoved(SlotsDisplayIds) /\ UNCHANGED others

SpecSlots == Init /\ [][NextSlots]_vars

\* SpecEvents: one session of every kind of line that keeps the connection,
\* over the internal display and one external display, one window and the
\* tags 1 and 2.
EvMaxTagMask == 2

EvDisplayIds == {1, 9}

EvTagMasks == 0..EvMaxTagMask

EvWindowIds == {1}

EvSnapshotDisplays == DisplayLists(EvDisplayIds, {0, 1})

EvSnapshotWindows == WindowLists(EvWindowIds, {1}, EvDisplayIds)

NextEvents ==
    \/ Spawn /\ UNCHANGED others
    \/ Snapshot(EvSnapshotDisplays, EvSnapshotWindows, EvDisplayIds) /\ UNCHANGED others
    \/ TagsChanged(EvDisplayIds, EvTagMasks) /\ UNCHANGED others
    \/ DisplayFocused(EvDisplayIds) /\ UNCHANGED others
    \/ WindowUpsert(EvWindowIds, EvTagMasks, EvDisplayIds) /\ UNCHANGED others
    \/ WindowDestroyed(EvWindowIds) /\ UNCHANGED others
    \/ DisplayUpsert(EvDisplayIds, EvTagMasks, BOOLEAN) /\ UNCHANGED others
    \/ DisplayRemoved(EvDisplayIds) /\ UNCHANGED others
    \/ UnknownEvent /\ UNCHANGED others
    \/ BlankLine /\ UNCHANGED others
    \/ InvalidJson /\ UNCHANGED others

SpecEvents == Init /\ [][NextEvents]_vars

\* SpecFocus: one session over more displays than slots in which the event
\* source, started with --snapshot, sends its snapshot as the first line and
\* display_removed events after it.
FocusMaxDisplayId == 12

FocusDisplayIds == DisplayIdsUpTo(FocusMaxDisplayId)

FocusSnapshotDisplays == DisplayLists(FocusDisplayIds, SlotsTagMasks)

FirstSnapshot(dlists, wlists, focus_ids) ==
    /\ pass = "none"
    /\ Snapshot(dlists, wlists, focus_ids)

NextFocus ==
    \/ Spawn /\ UNCHANGED others
    \/ FirstSnapshot(FocusSnapshotDisplays, { << >> }, FocusDisplayIds) /\ UNCHANGED others
    \/ DisplayRemoved(FocusDisplayIds) /\ UNCHANGED others

SpecFocus == Init /\ [][NextFocus]_vars

\* SpecRender: one session that starts from a snapshot of up to more displays
\* than slots and goes on with every kind of recognized event, among them
\* events that change nothing and events that name display 9, which sorts
\* last and is the one left without a slot.
RenderMaxDisplayId == 11

RenderDisplayIds == DisplayIdsUpTo(RenderMaxDisplayId)

RenderSnapshotDisplays == DisplayLists(RenderDisplayIds, SlotsTagMasks)

NextRender ==
    \/ Spawn /\ UNCHANGED others
    \/ FirstSnapshot(RenderSnapshotDisplays, { << >> }, {0}) /\ UNCHANGED others
    \/ TagsChanged({10}, {0, 1}) /\ UNCHANGED others
    \/ DisplayFocused({1, 9}) /\ UNCHANGED others
    \/ WindowUpsert({1}, {2}, {9}) /\ UNCHANGED others
    \/ WindowDestroyed({1}) /\ UNCHANGED others
    \/ DisplayUpsert({1}, {1}, {TRUE}) /\ UNCHANGED others
    \/ DisplayRemoved(RenderDisplayIds) /\ UNCHANGED others

SpecRender == Init /\ [][NextRender]_vars

\* SpecWindows: one session in which, after the snapshot, windows come and go
\* while the two displays are removed and added again.
NextWindows ==
    \/ Spawn /\ UNCHANGED others
    \/ FirstSnapshot(EvSnapshotDisplays, EvSnapshotWindows, EvDisplayIds)
          /\ UNCHANGED others
    \/ WindowUpsert(EvWindowIds, EvTagMasks, EvDisplayIds) /\ UNCHANGED others
    \/ WindowDestroyed(EvWindowIds) /\ UNCHANGED others
    \/ DisplayUpsert(EvDisplayIds, EvTagMasks, BOOLEAN) /\ UNCHANGED others
    \/ DisplayRemoved(EvDisplayIds) /\ UNCHANGED others

SpecWindows == Init /\ [][NextWindows]_vars

\* SpecSupervisor: the connection attempts of run(), each of which fails to
\* spawn or reads snapshots, display_removed events and lines that raise until
\* the output ends.  time.sleep(2) returns, so the step after the backoff is
\* taken whenever it stays possible.
SupervisorDisplayIds == {1, 9}

SupervisorSnapshotDisplays == DisplayLists(SupervisorDisplayIds, SlotsTagMasks)

Backoff == Sleep /\ UNCHANGED others

NextSupervisor ==
    \/ Spawn /\ UNCHANGED others
    \/ SpawnFails /\ UNCHANGED others
    \/ EndOfStream /\ UNCHANGED others
    \/ Backoff
    \/ Snapshot(SupervisorSnapshotDisplays, { << >> }, SupervisorDisplayIds) /\ UNCHANGED others
    \/ DisplayRemoved(SupervisorDisplayIds) /\ UNCHANGED others
    \/ InvalidJson /\ UNCHANGED others
    \/ MissingField /\ UNCHANGED others

SpecSupervisor == Init /\ [][NextSupervisor]_vars /\ WF_vars(Backoff)

\* SpecSnapshot: one session in which snapshot lines, kept as they are read,
\* come between display_added, display_updated, window_created,
\* window_updated and display_focused events.
NextSnapshot ==
    \/ Spawn /\ UNCHANGED others
    \/ SendSnapshot(EvSnapshotDisplays, EvSnapshotWindows, EvDisplayIds)
          /\ UNCHANGED polled
    \/ DisplayUpsert(EvDisplayIds, EvTagMasks, BOOLEAN) /\ source' = Unscripted
          /\ UNCHANGED polled
    \/ WindowUpsert(EvWindowIds, EvTagMasks, EvDisplayIds) /\ source' = Unscripted
          /\ UNCHANGED polled
    \/ DisplayFocused(EvDisplayIds) /\ source' = Unscripted
          /\ UNCHANGED polled

SpecSnapshot == Init /\ [][NextSnapshot]_vars

\* The incremental events that turn what the snapshot line s1 left into what
\* the snapshot line s2 describes, but for the focus: display_added (or
\* display_updated) for the displays of s2, display_removed for the other
\* displays of s1, window_created (or window_updated) for the windows of s2,
\* window_destroyed for the other windows of s1.
Event(type, id, tags, output_id) ==
    [ type |-> type, id |-> id, tags |-> tags, output_id |-> output_id ]

Ids(list) == { list[i].id : i \in DOMAIN list }

TripEvents(s1, s2) ==
    { Event("display_added", s2.displays[i].id, s2.displays[i].visible_tags, 0) :
        i \in DOMAIN s2.displays }
    \cup { Event("display_removed", id, 0, 0) : id \in Ids(s1.displays) \ Ids(s2.displays) }
    \cup { Event("window_created", s2.windows[i].id, s2.windows[i].tags,
                 s2.windows[i].output_id) : i \in DOMAIN s2.windows }
    \cup { Event("window_destroyed", id, 0, 0) : id \in Ids(s1.windows) \ Ids(s2.windows) }

\* the event source, having sent a snapshot, settles on a second snapshot line
\* and on sending the events that lead to it
PlanTrip(dlists, wlists, focus_ids) ==
    /\ source.kind = "sent"
    /\ \E dl \in dlists, wl \in wlists, f \in focus_ids :
          source' = [ kind |-> "trip", snapshot |-> SnapshotLine(dl, wl, f),
                      pending |-> TripEvents(source.snapshot, SnapshotLine(dl, wl, f)) ]
    /\ UNCHANGED << pc, session, displays, windows, focused_display, slot_assignment,
                    created_slots, slot_sizes, target, cmds, pass >>

\* run() reads one of the events the source is still to send
Deliver(e) ==
    CASE e.type = "display_added" -> DisplayUpsert({e.id}, {e.tags}, BOOLEAN)
      [] e.type = "display_removed" -> DisplayRemoved({e.id})
      [] e.type = "window_created" -> WindowUpsert({e.id}, {e.tags}, {e.output_id})
      [] e.type = "window_destroyed" -> WindowDestroyed({e.id})

TripEvent ==
    /\ source.kind = "trip"
    /\ \E e \in source.pending :
          /\ Deliver(e)
          /\ source' = [ source EXCEPT !.pending = @ \ {e} ]

\* the last event of the trip: display_focused for the focus of the second
\* snapshot
TripFocus ==
    /\ source.kind = "trip"
    /\ source.pending = {}
    /\ DisplayFocused({source.snapshot.focused_display_id})
    /\ source' = [ source EXCEPT !.kind = "done" ]

\* SpecRoundTrip: one session in which the event source sends a snapshot
\* first and then the events that lead to a second snapshot, in any order,
\* with display_focused last.
RtMaxTagMask == 1

RtSnapshotDisplays == DisplayLists(EvDisplayIds, 0..RtMaxTagMask)

RtSnapshotWindows == WindowLists(EvWindowIds, 0..RtMaxTagMask, EvDisplayIds)

NextRoundTrip ==
    \/ Spawn /\ UNCHANGED others
    \/ source.kind = "free"
          /\ SendSnapshot(RtSnapshotDisplays, RtSnapshotWindows, EvDisplayIds)
          /\ UNCHANGED polled
    \/ PlanTrip(RtSnapshotDisplays, RtSnapshotWindows, EvDisplayIds)
          /\ UNCHANGED polled
    \/ TripEvent /\ UNCHANGED polled
    \/ TripFocus /\ UNCHANGED polled

SpecRoundTrip == Init /\ [][NextRoundTrip]_vars

(***************************************************************************)
(* mic_camera.py: the privacy indicator.  run() polls check_devices and    *)
(* hands the sample and the state it kept to update, which adds and        *)
(* removes the elements "privacy", "privacy.cam" and "privacy.mic".        *)
(***************************************************************************)
MaxHelperLines == 2

MaxPolls == 4

\* One line of the helper's output: "camera:<value>", "mic:<value>", or a
\* line with neither prefix.
HelperLines ==
    { [ key |-> k, value |-> v ] :
        k \in { "camera", "mic", "other" }, v \in { "true", "false" } }

RECURSIVE SeqsUpTo(_, _)
SeqsUpTo(S, n) ==
    IF n = 0 THEN { << >> }
    ELSE LET shorter == SeqsUpTo(S, n - 1)
         IN  shorter \cup { Append(q, x) : q \in shorter, x \in S }

\* What running the helper gives: its output, or an exception (the binary is
\* missing, or the run times out).
HelperRuns ==
    { [ raised |-> TRUE, stdout |-> << >> ] }
      \cup { [ raised |-> FALSE, stdout |-> out ] :
               out \in SeqsUpTo(HelperLines, MaxHelperLines) }

\* the value of the loop variable after the lines: that of the last line with
\* the prefix, False when there is none
LastIsTrue(stdout, key) ==
    LET at == { i \in DOMAIN stdout : stdout[i].key = key }
    IN  /\ at # {}
        /\ stdout[CHOOSE i \in at : \A j \in at : j <= i].value = "true"

check_devices(r) ==
    IF r.raised THEN << FALSE, FALSE >>
    ELSE << LastIsTrue(r.stdout, "camera"), LastIsTrue(r.stdout, "mic") >>

RanmaAdd(name, parent) ==
    [ op |-> "add", name |-> name, parent |-> parent, label |-> << >> ]

RanmaRemove(name) == [ op |-> "remove", name |-> name ]

RanmaSet(name, label) == [ op |-> "set", name |-> name, label |-> label ]

create_container == RanmaAdd("privacy", "")

\* Variant: the child of a device that is no longer in use is left in place.
update_keeps_children(prev_state, state) ==
    LET cam == state[1]
        mic == state[2]
        prev_active == prev_state[1] \/ prev_state[2]
        active == cam \/ mic
    IN  IF state = prev_state THEN << >>
        ELSE IF ~active /\ prev_active THEN << RanmaRemove("privacy") >>
        ELSE (IF active /\ ~prev_active THEN << create_container >> ELSE << >>)
             \o (IF cam THEN << RanmaAdd("privacy.cam", "privacy") >> ELSE << >>)
             \o (IF mic THEN << RanmaAdd("privacy.mic", "privacy") >> ELSE << >>)

\* the commands of update(binary, prev_state) when check_devices gave state
update(prev_state, state) ==
    LET cam == state[1]
        mic == state[2]
        prev_active == prev_state[1] \/ prev_state[2]
        active == cam \/ mic
    IN  IF state = prev_state THEN << >>
        ELSE IF ~active /\ prev_active THEN << RanmaRemove("privacy") >>
        ELSE (IF active /\ ~prev_active THEN << create_container >> ELSE << >>)
             \o << IF cam THEN RanmaAdd("privacy.cam", "privacy")
                          ELSE RanmaRemove("privacy.cam") >>
             \o << IF mic THEN RanmaAdd("privacy.mic", "privacy")
                          ELSE RanmaRemove("privacy.mic") >>

\* The render target holds elements by name.  An element is added under a
\* parent that exists (or under the bar, parent ""); removing an element
\* removes the elements below it, as the plugins rely on when they remove a
\* container only; removing or setting a name that does not exist changes
\* nothing.
RECURSIVE Below(_, _)
Below(t, names) ==
    LET more == { e.name : e \in { x \in t : x.parent \in names } }
    IN  IF more \subseteq names THEN names ELSE Below(t, names \cup more)

Names(t) == { e.name : e \in t }

Ranma(t, c) ==
    IF c.op = "add"
    THEN IF c.name \in Names(t) THEN t
         ELSE IF c.parent = "" \/ c.parent \in Names(t)
              THEN t \cup { [ name |-> c.name, parent |-> c.parent, label |-> c.label ] }
              ELSE t
    ELSE IF c.op = "set"
    THEN { IF e.name = c.name THEN [ e EXCEPT !.label = c.label ] ELSE e : e \in t }
    ELSE { e \in t : e.name \notin Below(t, { c.name }) }

RECURSIVE RanmaAll(_, _)
RanmaAll(t, cs) == IF cs = << >> THEN t ELSE RanmaAll(Ranma(t, Head(cs)), Tail(cs))

\* one iteration of run(): prev = update(binary, prev)
Update ==
    /\ Len(samples) < MaxPolls
    /\ \E r \in HelperRuns :
          \E state \in { check_devices(r) } :
              /\ samples' = Append(samples, state)
              /\ privacy' = RanmaAll(privacy, update(prev, state))
              /\ prev' = state

NextMicCamera == Update /\ UNCHANGED << bridge, source, now_playing >>

SpecMicCamera == Init /\ [][NextMicCamera]_vars

(***************************************************************************)
(* island.py and unified-transparent.py: the now-playing section.  run()   *)
(* calls setup() once and then polls get_now_playing; update_np adds the   *)
(* section when a title appears, sets its labels while it stays, and       *)
(* removes it when the title is gone.  The two plugins differ in the name  *)
(* of the bar and in the separator that island.py adds before the section. *)
(***************************************************************************)
MAX_TITLE_LEN == 30

MAX_ARTIST_LEN == 20

Plugins == { "island", "unified-transparent" }

BarName(p) == IF p = "island" THEN "island.bar" ELSE "bar"

\* a text of n characters
Text(n, ch) == [ i \in 1..n |-> ch ]

\* the texts a line can carry after its prefix: none, short ones, and one at
\* and one over the length at which it is cut
Texts(maxlen) ==
    { Text(n, "a") : n \in { 0, 1, maxlen, maxlen + 1 } } \cup { Text(1, "b") }

truncate(s, maxlen) ==
    IF Len(s) <= maxlen THEN s ELSE SubSeq(s, 1, maxlen - 1) \o << "..." >>

\* What running the now-playing script gives: an exception, or lines
\* "title:<text>", "artist:<text>" and lines with neither prefix.
NpLines ==
    { [ key |-> "title", value |-> t ] : t \in Texts(MAX_TITLE_LEN) }
      \cup { [ key |-> "artist", value |-> t ] : t \in Texts(MAX_ARTIST_LEN) }
      \cup { [ key |-> "other", value |-> << >> ] }

NpRuns ==
    { [ raised |-> TRUE, stdout |-> << >> ] }
      \cup { [ raised |-> FALSE, stdout |-> out ] : out \in SeqsUpTo(NpLines, 2) }

\* the value of the loop variable after the lines: that of the last line with
\* the prefix, "" when there is none
LastValue(stdout, key) ==
    LET at == { i \in DOMAIN stdout : stdout[i].key = key }
    IN  IF at = {} THEN << >>
        ELSE stdout[CHOOSE i \in at : \A j \in at : j <= i].value

get_now_playing(r) ==
    IF r.raised THEN << << >>, << >> >>
    ELSE << LastValue(r.stdout, "title"), LastValue(r.stdout, "artist") >>

RanmaAddLabel(name, parent, label) ==
    [ op |-> "add", name |-> name, parent |-> parent, label |-> label ]

add_np_section(p, title, artist) ==
    (IF p = "island" THEN << RanmaAddLabel("bar.sep.np", BarName(p), << "|" >>) >>
                     ELSE << >>)
      \o << RanmaAdd("bar.np", BarName(p)),
            RanmaAdd("bar.np.icon", "bar.np"),
            RanmaAddLabel("bar.np.title", "bar.np", truncate(title, MAX_TITLE_LEN)) >>
      \o (IF artist # << >>
          THEN << RanmaAddLabel("bar.np.artist", "bar.np",
                                truncate(artist, MAX_ARTIST_LEN)) >>
          ELSE << >>)

remove_np_section(p) ==
    << RanmaRemove("bar.np") >>
      \o (IF p = "island" THEN << RanmaRemove("bar.sep.np") >> ELSE << >>)

\* the commands of update_np(script, visible) when get_now_playing gave sample
update_np(p, sample, visible) ==
    LET title == sample[1]
        artist == sample[2]
    IN  IF title # << >>
        THEN IF ~visible THEN add_np_section(p, title, artist)
             ELSE << RanmaSet("bar.np.title", truncate(title, MAX_TITLE_LEN)) >>
                    \o (IF artist # << >>
                        THEN << RanmaSet("bar.np.artist",
                                         truncate(artist, MAX_ARTIST_LEN)) >>
                        ELSE << >>)
        ELSE IF visible THEN remove_np_section(p) ELSE << >>

\* setup(): the bar, under which the sections are added
Setup ==
    /\ plugin = "none"
    /\ \E p \in Plugins :
          /\ plugin' = p
          /\ bar' = RanmaAll(bar, << RanmaAdd(BarName(p), "") >>)
    /\ UNCHANGED << np_visible, np_cmds, np_sample >>

\* one poll of run(): np_visible = update_np(scripts["nowplaying"], np_visible)
UpdateNp ==
    /\ plugin # "none"
    /\ \E r \in NpRuns :
          \E sample \in { get_now_playing(r) } :
              \E issued \in { update_np(plugin, sample, np_visible) } :
                  /\ np_sample' = sample
                  /\ np_cmds' = issued
                  /\ bar' = RanmaAll(bar, issued)
                  /\ np_visible' = (sample[1] # << >>)
    /\ UNCHANGED plugin

NextNowPlaying ==
    \/ Setup /\ UNCHANGED << bridge, source, mic_camera >>
    \/ UpdateNp /\ UNCHANGED << bridge, source, mic_camera >>

SpecNowPlaying == Init /\ [][NextNowPlaying]_vars

(***************************************************************************)
(* Properties.                                                             *)
(***************************************************************************)
Live == DOMAIN displays

Occupied == DOMAIN slot_assignment

Waiting == Live \ Range(slot_assignment)

FreeSlots == (1..MAX_DISPLAYS) \ Occupied

\* C1: after every event the slot assignment is injective (no display
\* identity is the value of two slots) and every slot key lies in
\* 1..MAX_DISPLAYS.
C1_SlotsInjective ==
    /\ Occupied \subseteq 1..MAX_DISPLAYS
    /\ \A s, t \in Occupied : s # t => slot_assignment[s] # slot_assignment[t]

\* C1 witness: all slots are occupied while a fourth display is live.
C1_Witness ==
    /\ pass = "reconcile"
    /\ Occupied = 1..MAX_DISPLAYS
    /\ Cardinality(Live) > MAX_DISPLAYS

\* C2: after every fully processed event every display identity a slot maps
\* to is a key of displays: a slot is occupied only by a display that exists.
C2_SlotsHoldLiveDisplays == Range(slot_assignment) \subseteq Live

\* C2 witness: a pass has removed the elements of a slot whose display
\* vanished, while other displays stay assigned.
C2_Witness ==
    /\ pass = "reconcile"
    /\ \E i \in DOMAIN cmds : cmds[i].op = "remove" /\ cmds[i].slot \notin Occupied
    /\ Occupied # {}

\* C3: stickiness.  For every event, a slot that maps to display d before the
\* event still maps to d after it when d is still live after the event.
C3_Sticky ==
    [][ \A s \in Occupied :
          slot_assignment[s] \in Live'
            => /\ s \in Occupied'
               /\ slot_assignment'[s] = slot_assignment[s] ]_vars

\* C3 witness: slot 1 was freed by a removal and the displays of slots 2 and
\* 3 kept their slots.
C3_Witness ==
    /\ pass = "reconcile"
    /\ cmds = << RemoveCmd(1) >>
    /\ Occupied = {2, 3}

\* C4: the allocation rule of assign_slots.  In every pass the slots of live
\* displays stay; the waiting live displays, in ascending identity order, get
\* the free slots in ascending slot order, as many as there are of the fewer
\* of the two; a removed display keeps no claim on its former slot.  With A in
\* slot 1 and B in slot 2: removing B frees slot 2, adding C then puts C in
\* slot 2, adding B after that puts B in slot 3, and adding B directly after
\* its removal puts it back in slot 2.
C4_Allocated(before, live, after) ==
    LET keptSlots == { s \in DOMAIN before : before[s] \in live }
        free == (1..MAX_DISPLAYS) \ keptSlots
        waiting == live \ { before[s] : s \in keptSlots }
        filled == DOMAIN after \ keptSlots
        served == { after[s] : s \in filled }
    IN  /\ \A s \in keptSlots : s \in DOMAIN after /\ after[s] = before[s]
        /\ filled \subseteq free
        /\ served \subseteq waiting
        /\ Cardinality(served) = Cardinality(filled)
        /\ Cardinality(filled) =
             IF Cardinality(free) < Cardinality(waiting)
             THEN Cardinality(free) ELSE Cardinality(waiting)
        /\ \A s \in filled : \A f \in free \ filled : s < f
        /\ \A d \in served : \A w \in waiting \ served : StrLess(d, w)
        /\ \A s, t \in filled :
             s < t => StrLess(after[s], after[t])

C4_Scenario(before, live, after) ==
    LET ids == live \cup Range(before)
    IN  /\ \A A, B \in ids :
              A # B =>
                /\ (before = << A, B >> /\ live = {A}) => after = << A >>
                /\ (before = << A >> /\ live = {A, B}) => after = << A, B >>
        /\ \A A, B, C \in ids :
              (A # B /\ A # C /\ B # C) =>
                ((before = << A, C >> /\ live = {A, B, C}) => after = << A, C, B >>)

C4_AllocationRule ==
    [][ pass' = "reconcile"
          => /\ C4_Allocated(slot_assignment, Live', slot_assignment')
             /\ C4_Scenario(slot_assignment, Live', slot_assignment') ]_vars

\* C4 witness: B ("10") was added last and took the lowest free slot, 3,
\* behind C ("11") in slot 2 although "10" sorts before "11".
C4_Witness ==
    /\ slot_assignment = << Str(1), Str(11), Str(10) >>
    /\ cmds = << AddCmd(3, Str(10), "default") >>

\* C5: after every reconciliation (every call of ensure_display_items)
\* created_slots equals the key set of the slot assignment.
C5_CreatedSlotsAreAssigned == created_slots = Occupied

\* C5 witness: a pass has dropped a slot from created_slots and kept others.
C5_Witness ==
    /\ pass = "reconcile"
    /\ \E i \in DOMAIN cmds : cmds[i].op = "remove" /\ cmds[i].slot \notin created_slots
    /\ created_slots # {}

\* C6: teardown before rebuild.  Within a reconciliation pass the remove
\* commands are issued before any add command, and a slot that passes from
\* one display to another in the pass has its elements removed and then added
\* for the new display.
C6_RemovesFirst ==
    \A i, j \in DOMAIN cmds' :
        (cmds'[i].op = "remove" /\ cmds'[j].op = "add") => i < j

C6_ReusedSlotRebuilt ==
    \A s \in Occupied \cap Occupied' :
        slot_assignment[s] # slot_assignment'[s]
          => \E i, j \in DOMAIN cmds' :
                /\ i < j
                /\ cmds'[i] = RemoveCmd(s)
                /\ cmds'[j].op = "add"
                /\ cmds'[j].slot = s
                /\ cmds'[j].display = slot_assignment'[s]

C6_TeardownBeforeRebuild ==
    [][ pass' = "reconcile" => (C6_RemovesFirst /\ C6_ReusedSlotRebuilt) ]_vars

\* C7: the renderer is consistent with the model.  After every
\* reconciliation each slot of created_slots has its container and tag boxes
\* in the target, and each of them was created for the display the slot is
\* assigned to: the container's display affinity and the boxes' click-action
\* output name that display.
C7_RendererConsistent ==
    \A s \in created_slots :
        /\ \E c \in TargetContainers : c.slot = s
        /\ \A c \in TargetContainers : c.slot = s => c.display = slot_assignment[s]
        /\ \A b \in TargetTagBoxes :
              b.slot = s => b.on_click_output = slot_assignment[s]

\* C8: the locally tracked set equals what exists in the render target.  At
\* every point after a reconciliation, over the sessions of one process,
\* created_slots is the set of slots whose container has been added to the
\* target and not removed since.
C8_CreatedSlotsMatchTarget ==
    pass = "reconcile" => created_slots = { c.slot : c \in TargetContainers }

\* C9: capacity.  After every reconciliation no slot is free while a live
\* display holds no slot; with more than MAX_DISPLAYS live displays exactly
\* MAX_DISPLAYS slots are occupied; and when the display of a slot is removed
\* while displays wait, the slot goes in the same pass to the waiting display
\* of the lowest identity.
C9_NoFreeSlotWhileWaiting ==
    /\ FreeSlots # {} => Waiting = {}
    /\ Cardinality(Live) > MAX_DISPLAYS => Cardinality(Occupied) = MAX_DISPLAYS

C9_FreedSlotHandedOver ==
    \A s \in Occupied :
        (Live' = Live \ { slot_assignment[s] } /\ Waiting # {})
          => /\ s \in Occupied'
             /\ slot_assignment'[s] \in Waiting
             /\ \A w \in Waiting \ { slot_assignment'[s] } : StrLess(slot_assignment'[s], w)

C10_AssignIdempotent == assign_slots(displays, slot_assignment) = slot_assignment

\* C10 witness: after a pass, slot 2 is free between two occupied slots and no
\* display waits: a further call has a free slot at hand and nothing to do.
C10_Witness ==
    /\ pass = "reconcile"
    /\ Occupied = {1, 3}
    /\ Waiting = {}

\* What a line that is discarded leaves alone: the whole state of the session.
SessionState ==
    << displays, windows, focused_display, slot_assignment, created_slots, slot_sizes >>

\* C11: a line that is valid JSON but lacks a required field (no "type", a
\* tags_changed without display_id, a window_created without window) is
\* discarded: the state of the session is unchanged and run() goes on
\* reading the lines of the same connection in the same session.
C11_MissingFieldDiscarded ==
    [][ MissingField
          => /\ UNCHANGED SessionState
             /\ pc' = "streaming"
             /\ session' = session ]_vars

\* C12: a line that is not valid JSON, and an empty line, is skipped:
\* displays, windows, focus, slot assignment and created_slots are unchanged,
\* no render command is issued, and run() goes on to the next line of the
\* same session.
C12_UndecodableLineSkipped ==
    [][ (BlankLine \/ InvalidJson)
          => /\ UNCHANGED << displays, windows, focused_display, slot_assignment,
                             created_slots >>
             /\ Issued' = << >>
             /\ pc' = "streaming"
             /\ session' = session ]_vars

\* C12 witness: a line that does not decode was skipped while displays hold
\* slots and a window is tracked.
C12_Witness ==
    /\ pc = "streaming"
    /\ pass = "undecodable"
    /\ created_slots # {}
    /\ DOMAIN windows # {}

\* C13: when display_removed removes the focused display and no display
\* remains, focus becomes the empty sentinel: it no longer names the removed
\* display.
C13_FocusClearedWhenNoDisplayRemains ==
    [][ \A id \in DisplayIds :
          ( /\ DisplayRemoved({id})
            /\ Str(id) \in Live
            /\ focused_display = Str(id)
            /\ Live' = {} )
          => focused_display' # Str(id) ]_vars

\* The set commands of the last line style every tag of slot s focused.
StyledFocused(s) ==
    \E sets \in { SetCmds } :
        \A tag_num \in 1..NUM_TAGS :
            \E i \in DOMAIN sets :
                sets[i].slot = s /\ sets[i].tag = tag_num /\ sets[i].focused

\* a display_removed for the tracked display id that has the focus, after
\* which a display remains
FocusedDisplayRemoved(id) ==
    /\ DisplayRemoved({id})
    /\ Str(id) \in Live
    /\ focused_display = Str(id)
    /\ Live' # {}

\* C14 as stated: when display_removed removes the focused display and at
\* least one display remains, focus is one of the remaining live displays
\* after the event, and the render pass of that event styles that display's
\* slot with the focused variants.
C14_FallbackSlotStyled ==
    [][ \A id \in FocusDisplayIds :
          FocusedDisplayRemoved(id)
            => /\ focused_display' \in Live'
               /\ \E s \in Occupied' :
                     /\ slot_assignment'[s] = focused_display'
                     /\ StyledFocused(s)' ]_vars

\* C14 amended: focus is one of the remaining live displays after the event;
\* when that display holds a slot, which it does whenever at most MAX_DISPLAYS
\* displays remain, the render pass of the event styles that slot with the
\* focused variants.  With more displays remaining the display that gets the
\* focus may hold no slot, and then no slot is styled focused.
C14_FallbackFocus ==
    [][ \A id \in FocusDisplayIds :
          FocusedDisplayRemoved(id)
            => /\ focused_display' \in Live'
               /\ \A s \in Occupied' :
                     slot_assignment'[s] = focused_display' => StyledFocused(s)'
               /\ Cardinality(Live') <= MAX_DISPLAYS
                    => focused_display' \in Range(slot_assignment') ]_vars

\* C14 witness: of the displays "1" in slot 1 and "9" in slot 2, "1" had the
\* focus and was removed; the focus is on "9" and slot 2 is styled focused.
C14_Witness ==
    /\ pass = "reconcile"
    /\ cmds = << RemoveCmd(1) >>
    /\ slot_assignment = (2 :> Str(9))
    /\ focused_display = Str(9)
    /\ StyledFocused(2)

\* a step in which run() hands a line to process_event
ProcessEventStep ==
    \/ TagsChanged(DisplayIds, TagMasks)
    \/ DisplayFocused(DisplayIds)
    \/ WindowUpsert(WindowIds, TagMasks, DisplayIds)
    \/ WindowDestroyed(WindowIds)
    \/ DisplayUpsert(DisplayIds, TagMasks, BOOLEAN)
    \/ DisplayRemoved(DisplayIds)
    \/ UnknownEvent

\* C15: process_event returns True exactly when the event changed the
\* displays, the windows, the focus or the slot assignment, and False
\* whenever none of them changed.  run() goes on to update_all when it
\* returned True and skips the line when it returned False.
C15_ReturnsWhetherChanged ==
    [][ ProcessEventStep
          => ( pass' # "ignored"
                 <=> << displays, windows, focused_display, slot_assignment >>'
                       # << displays, windows, focused_display, slot_assignment >> ) ]_vars

\* C16: an event whose type is not one of the recognized kinds makes
\* process_event return False, leaves displays, windows, focus, slot
\* assignment and created_slots unchanged, and causes no render command (no
\* add, set or remove) before the next line is read.
C16_UnknownEventIgnored ==
    [][ UnknownEvent
          => /\ pass' = "ignored"
             /\ UNCHANGED << displays, windows, focused_display, slot_assignment,
                             created_slots >>
             /\ Issued' = << >>
             /\ pc' = "streaming" ]_vars

\* C16 witness: an event of an unrecognized type was ignored while both
\* displays hold slots, so that a render pass would have issued set commands.
C16_Witness ==
    /\ pc = "streaming"
    /\ pass = "ignored"
    /\ Occupied = {1, 2}
    /\ update_all(displays, windows, focused_display, slot_assignment, slot_sizes) # << >>

\* what a no-op leaves alone, and that it adds and removes nothing
NoOp ==
    /\ UNCHANGED << displays, windows, focused_display, slot_assignment, created_slots >>
    /\ \A i \in DOMAIN cmds' : cmds'[i].op \notin { "add", "remove" }

\* C17: stale references are no-ops.  A tags_changed for a display that is
\* not tracked, a window_destroyed for a window that is not tracked and a
\* display_removed for a display that is not tracked each leave displays,
\* windows, focus, slot assignment and created_slots unchanged, create no
\* display record, and issue no add or remove command.
C17_StaleReferencesNoOp ==
    [][ /\ \A id \in DisplayIds :
              (Str(id) \notin Live /\ TagsChanged({id}, TagMasks)) => NoOp
        /\ \A id \in WindowIds :
              (Str(id) \notin DOMAIN windows /\ WindowDestroyed({id})) => NoOp
        /\ \A id \in DisplayIds :
              (Str(id) \notin Live /\ DisplayRemoved({id})) => NoOp ]_vars

\* C18: after a snapshot event, whatever the state before it, the displays
\* are exactly the snapshot's displays with their visible_tags, the windows
\* are exactly the snapshot's windows with their tags and output_id, and focus
\* is the snapshot's focused_display_id; no display or window record from
\* before the snapshot survives.
C18_SnapshotReplaces ==
    source.kind = "sent"
      => LET dl == source.snapshot.displays
             wl == source.snapshot.windows
         IN  /\ DOMAIN displays = { Str(dl[i].id) : i \in DOMAIN dl }
             /\ \A i \in DOMAIN dl :
                   displays[Str(dl[i].id)] = [ visible_tags |-> dl[i].visible_tags ]
             /\ DOMAIN windows = { Str(wl[i].id) : i \in DOMAIN wl }
             /\ \A i \in DOMAIN wl :
                   windows[Str(wl[i].id)] =
                      [ tags |-> wl[i].tags, output_id |-> Str(wl[i].output_id) ]
             /\ focused_display = Str(source.snapshot.focused_display_id)

\* C18 witness: a snapshot without displays has replaced two tracked displays
\* in one pass, and the window tracked is the one the snapshot listed.
C18_Witness ==
    /\ source.kind = "sent"
    /\ pass = "reconcile"
    /\ cmds = << RemoveCmd(1), RemoveCmd(2) >>
    /\ displays = << >>
    /\ windows = (Str(1) :> [ tags |-> 1, output_id |-> Str(9) ])
    /\ focused_display = Str(9)

\* C19: round trip.  For any two snapshots S1 and S2, applying S1 and then
\* the incremental events that turn S1 into S2 (display_added or
\* display_updated for S2's displays, display_removed for the others,
\* window_created or window_updated for S2's windows, window_destroyed for
\* the others, display_focused for S2's focus) yields displays, windows and
\* focus equal field for field to what process_snapshot makes of S2.
C19_RoundTrip ==
    source.kind = "done"
      => /\ displays = DisplaysOf(source.snapshot.displays)
         /\ windows = WindowsOf(source.snapshot.windows)
         /\ focused_display = Str(source.snapshot.focused_display_id)

\* C19 witness: a trip is done in which display "1" was removed (its slot 1
\* is free, "9" kept slot 2), display "9" was updated and the window moved to
\* display "9".
C19_Witness ==
    /\ source.kind = "done"
    /\ slot_assignment = (2 :> Str(9))
    /\ displays = (Str(9) :> [ visible_tags |-> 0 ])
    /\ windows = (Str(1) :> [ tags |-> 1, output_id |-> Str(9) ])
    /\ focused_display = Str(9)

\* C20: classification is total and exclusive with precedence.  For every
\* slot and tag index a render pass selects exactly one of active, occupied,
\* vacant: active whenever the tag's bit is set in the display's
\* visible_tags (also when a window carries the bit), occupied only when the
\* bit is not visible and is set in the tags of a window on that display,
\* vacant otherwise.
C20_Classification ==
    pass \in { "reconcile", "update" }
      => \E sets \in { SetCmds } :
            \A s \in Occupied, k \in 1..NUM_TAGS :
                LET did == slot_assignment[s]
                    visible == did \in Live /\ Bit(displays[did].visible_tags, k)
                    carried == \E w \in DOMAIN windows :
                                  windows[w].output_id = did /\ Bit(windows[w].tags, k)
                    classes == { sets[i].class :
                                   i \in { j \in DOMAIN sets :
                                             sets[j].slot = s /\ sets[j].tag = k } }
                IN  /\ Cardinality(classes) = 1
                    /\ classes \subseteq { "active", "occupied", "vacant" }
                    /\ "active" \in classes <=> visible
                    /\ "occupied" \in classes <=> (~visible /\ carried)
                    /\ "vacant" \in classes <=> (~visible /\ ~carried)

\* C20 witness: a pass has styled tag 1 of slot 1 active while the window on
\* that display carries tag 1 too, and tag 1 of slot 2, whose display shows no
\* tag and has no window, vacant.
C20_Witness ==
    /\ pass = "update"
    /\ slot_assignment = << Str(1), Str(9) >>
    /\ displays[Str(1)].visible_tags = 1
    /\ displays[Str(9)].visible_tags = 0
    /\ windows = (Str(1) :> [ tags |-> 1, output_id |-> Str(1) ])
    /\ \E i \in DOMAIN SetCmds :
          SetCmds[i].slot = 1 /\ SetCmds[i].tag = 1 /\ SetCmds[i].class = "active"
    /\ \E i \in DOMAIN SetCmds :
          SetCmds[i].slot = 2 /\ SetCmds[i].tag = 1 /\ SetCmds[i].class = "vacant"

\* the class and focus variant that the latest pass gave tag k of slot s
Styles(sets, s, k) ==
    { << sets[i].class, sets[i].focused >> :
        i \in { j \in DOMAIN sets : sets[j].slot = s /\ sets[j].tag = k } }

\* the classification of tag k on display did in the current model
Classification(did, k) ==
    IF did \in Live /\ Bit(displays[did].visible_tags, k) THEN "active"
    ELSE IF \E w \in DOMAIN windows :
                windows[w].output_id = did /\ Bit(windows[w].tags, k)
         THEN "occupied"
         ELSE "vacant"

\* every tag of every occupied slot is styled by its classification, in the
\* focused variant exactly when the slot's display is the focused display
C21_StyledByModel ==
    pass \in { "reconcile", "update" }
      => \E sets \in { SetCmds } :
            \A s \in Occupied, k \in 1..NUM_TAGS :
                Styles(sets, s, k)
                  = { << Classification(slot_assignment[s], k),
                         slot_assignment[s] = focused_display >> }

\* display A shows tag 1, its only window carries tag 2, and A is focused
C21_Example(A) ==
    /\ A \in Live
    /\ displays[A].visible_tags = 1
    /\ focused_display = A
    /\ \E w \in DOMAIN windows : windows[w].output_id = A
    /\ \A w \in DOMAIN windows : windows[w].output_id = A => windows[w].tags = 2

\* in the example the pass renders tag 1 active, tag 2 occupied and the other
\* tags vacant, all in the focused variant
C21_ExampleRendered ==
    pass \in { "reconcile", "update" }
      => \E sets \in { SetCmds } :
            \A s \in Occupied :
                C21_Example(slot_assignment[s])
                  => \A k \in 1..NUM_TAGS :
                        Styles(sets, s, k)
                          = { << IF k = 1 THEN "active"
                                 ELSE IF k = 2 THEN "occupied" ELSE "vacant",
                                 TRUE >> }

\* destroying the only window that carries a tag which is not visible turns
\* the tag from occupied to vacant in the pass that follows
C21_DestroyedTurnsVacant ==
    \A id \in EvWindowIds, w \in DOMAIN windows :
        (w = Str(id) /\ WindowDestroyed({id}))
          => \E sets \in { SetCmds' } :
                \A s \in Occupied, k \in 1..NUM_TAGS :
                    ( /\ slot_assignment[s] = windows[w].output_id
                      /\ Bit(windows[w].tags, k)
                      /\ Classification(slot_assignment[s], k) = "occupied"
                      /\ \A v \in DOMAIN windows \ {w} :
                            ~ ( windows[v].output_id = windows[w].output_id
                                /\ Bit(windows[v].tags, k) ) )
                      => Styles(sets, s, k)
                           = { << "vacant", slot_assignment[s] = focused_display >> }

\* C21: rendering follows the model after any event sequence.  The set
\* commands of the latest render pass give each tag of each occupied slot the
\* style of its classification in the current model, counting as occupied
\* only the windows whose output_id is the slot's display, in the focused
\* variant exactly when the slot's display is the focused display; the
\* example of the claim renders active, occupied, vacant; and destroying the
\* only window carrying a non-visible tag turns it from occupied to vacant.
C21_RenderingFollowsModel ==
    /\ [] C21_StyledByModel
    /\ [] C21_ExampleRendered
    /\ [][ C21_DestroyedTurnsVacant ]_vars

\* C21 witness: the claim's example has been rendered on slot 1 while a
\* second display holds slot 2.
C21_Witness ==
    /\ pass = "update"
    /\ slot_assignment = << Str(1), Str(9) >>
    /\ C21_Example(Str(1))
    /\ \E i \in DOMAIN SetCmds :
          /\ SetCmds[i].slot = 1 /\ SetCmds[i].tag = 2
          /\ SetCmds[i].class = "occupied" /\ SetCmds[i].focused

\* a step in which run() reads a snapshot or a recognized incremental event:
\* under SpecRender every step of a streaming session
RecognizedLine == pc = "streaming"

\* the set commands name every tag of every occupied slot once and no other
\* slot
CoversOccupied(sets) ==
    /\ { << sets[i].slot, sets[i].tag >> : i \in DOMAIN sets }
         = Occupied \X (1..NUM_TAGS)
    /\ Len(sets) = Cardinality(Occupied) * NUM_TAGS

SessionEnds == pc \in { "spawn", "streaming" } /\ pc' \notin { pc, "streaming" }

\* C23: after every end of a session (end of the event source's output,
\* failure to spawn it, or an exception raised while a line is processed) the
\* supervisor waits the backoff and starts a new connection attempt.  It
\* reaches no state in which it has stopped, so a new connection attempt
\* eventually follows every disconnect (of the attempts the model counts).
C23_Reconnects ==
    /\ [][ SessionEnds => pc' = "sleep" ]_vars
    /\ [][ pc = "sleep" => pc' = "spawn" /\ session' = session + 1 ]_vars
    /\ [] ( pc = "sleep" /\ session < MaxSessions => ENABLED Backoff )
    /\ ( pc = "sleep" /\ session < MaxSessions ) ~> ( pc = "spawn" )

\* C23 witness: a new connection attempt starts after a session that a
\* raising line ended, with the state that session left.
C23_Witness ==
    /\ pc = "spawn"
    /\ session > 1
    /\ pass = "raised"
    /\ displays # << >>

\* the state dict as run() builds it for a connection attempt
Fresh ==
    /\ displays = << >>
    /\ windows = << >>
    /\ focused_display = InitialFocus
    /\ slot_assignment = << >>
    /\ created_slots = {}

\* the first line of a session is handled as from the fresh state: the slots
\* are assigned from scratch and nothing is removed
FirstLineFromFresh ==
    /\ slot_assignment' = assign_slots(displays', << >>)
    /\ created_slots' = DOMAIN slot_assignment'
    /\ cmds' = ensure_display_items(slot_assignment', {})

\* C24: at the start of every connection attempt the displays, the windows,
\* the slot assignment and created_slots are empty and the focus has its
\* initial value, whatever state the previous session ended in; no event of a
\* session observes state written by an earlier session.
C24_FreshStatePerSession ==
    /\ [][ pc = "spawn" /\ pc' = "streaming" => Fresh' ]_vars
    /\ [][ pc = "streaming" /\ pass = "none" /\ pass' = "reconcile"
             => FirstLineFromFresh ]_vars

\* C24 witness: the second session has handled its first line, a snapshot of
\* one display, while the elements of two displays of the first session are
\* still in the render target.
C24_Witness ==
    /\ session = 2
    /\ pc = "streaming"
    /\ pass = "reconcile"
    /\ Cardinality(Live) = 1
    /\ Cardinality(target) = 2
    /\ Len(cmds) = 1

\* C25: the mic/camera plugin shows the indicator exactly while a device is in
\* use.  Starting from prev = (False, False), after every call of update the
\* "privacy" container exists in the render target if and only if the latest
\* sample has the camera or the microphone active, and the child privacy.cam
\* (privacy.mic) exists if and only if the camera (the microphone) is active
\* in the latest sample.
C25_IndicatorFollowsSample ==
    samples # << >>
      => LET latest == samples[Len(samples)]
         IN  /\ "privacy" \in Names(privacy) <=> (latest[1] \/ latest[2])
             /\ "privacy.cam" \in Names(privacy) <=> latest[1]
             /\ "privacy.mic" \in Names(privacy) <=> latest[2]

\* C25 witness: after samples with both devices, with none and with both
\* again, the camera alone has gone out of use.
C25_Witness ==
    /\ Len(samples) = 4
    /\ samples[1] = << TRUE, TRUE >>
    /\ samples[2] = << FALSE, FALSE >>
    /\ samples[3] = << TRUE, TRUE >>
    /\ samples[4] = << FALSE, TRUE >>
    /\ Names(privacy) = { "privacy", "privacy.mic" }

\* the set commands as the render target receives them: element and arguments
Received(sets) ==
    [ i \in DOMAIN sets |->
        [ slot |-> sets[i].slot, tag |-> sets[i].tag, args |-> SetArgs(sets[i]) ] ]

\* C26: the render planner has no hidden state.  The set commands update_all
\* issues for a tag depend only on the tag's classification, on whether the
\* slot's display is focused and on the session constants, and two sessions
\* whose displays, windows, focus and slot assignment are equal issue
\* identical set commands, whatever their event history and whichever display
\* held each slot before: the commands are those of a session that has no
\* history, one whose slots were all created for the displays they hold.
C26_NoHiddenState ==
    pass \in { "reconcile", "update" }
      => \E sets \in { SetCmds } :
            /\ \A i \in DOMAIN sets :
                  SetArgs(sets[i])
                    = SetArgs(SetCmd(sets[i].slot, sets[i].tag,
                                     Classification(slot_assignment[sets[i].slot],
                                                    sets[i].tag),
                                     slot_assignment[sets[i].slot] = focused_display,
                                     "default"))
            /\ Received(sets)
                 = Received(update_all(displays, windows, focused_display,
                                       slot_assignment,
                                       [ s \in Occupied |->
                                           sizes_for_display(slot_assignment[s]) ]))

\* C26 witness: a pass has rendered an active and an occupied tag, focused, on
\* a slot that was created for the internal display and handed to display 9,
\* with the size recorded for the internal display.
C26_Witness ==
    /\ pass = "update"
    /\ 1 \in Occupied
    /\ slot_assignment[1] = Str(9)
    /\ slot_sizes[1] = "compact"
    /\ focused_display = Str(9)
    /\ displays[Str(9)].visible_tags = 1
    /\ \E w \in DOMAIN windows :
          windows[w].output_id = Str(9) /\ windows[w].tags = 2

\* C27: display_focused sets the focus to the event's display id whether or
\* not that display is tracked, and changes nothing else: displays, windows,
\* slot assignment and created_slots are unchanged.  When the id names no live
\* display, the render pass that follows styles every occupied slot with the
\* unfocused variants.
C27_DisplayFocusedFrame ==
    [][ \A id \in RenderDisplayIds :
          DisplayFocused({id})
            => /\ focused_display' = Str(id)
               /\ UNCHANGED << displays, windows, slot_assignment, created_slots >>
               /\ pass' = "update"
               /\ Str(id) \notin Live
                    => \E sets \in { SetCmds' } :
                          /\ { sets[i].slot : i \in DOMAIN sets } = Occupied
                          /\ \A i \in DOMAIN sets : ~ sets[i].focused ]_vars

\* C27 witness: the focus names display 1, which is not live, after a pass
\* that rendered the slots of other displays, none of them focused.
C27_Witness ==
    /\ pass = "update"
    /\ focused_display = Str(1)
    /\ Str(1) \notin Live
    /\ Cardinality(Occupied) = MAX_DISPLAYS
    /\ \A i \in DOMAIN SetCmds : ~ SetCmds[i].focused

\* C28: within a session every set command targets an element of a slot whose
\* container and tag elements were added earlier in that session and not
\* removed since.  update_all touches only slots that are in created_slots,
\* and among the commands of one event every add command of a slot precedes
\* the first set command for that slot.
C28_SetTargetsAddedElements ==
    pass \in { "reconcile", "update" }
      => \E issued \in { Issued } :
            \A i \in DOMAIN issued :
                issued[i].op = "set"
                  => /\ issued[i].slot \in created_slots
                     /\ \E g \in target : g.slot = issued[i].slot
                     /\ \A j \in DOMAIN issued :
                           ( issued[j].op = "add" /\ issued[j].slot = issued[i].slot )
                             => j < i

\* C28 witness: a pass has added the elements of slot 1 again, after they had
\* been removed, and has rendered three slots.
C28_Witness ==
    /\ pass = "reconcile"
    /\ cmds = << AddCmd(1, Str(1), "compact") >>
    /\ windows # << >>
    /\ Cardinality(Occupied) = MAX_DISPLAYS
    /\ Len(SetCmds) = MAX_DISPLAYS * NUM_TAGS

\* the tags that the windows with output_id did carry
Carried(did) ==
    { k \in 1..NUM_TAGS :
        \E w \in DOMAIN windows : windows[w].output_id = did /\ Bit(windows[w].tags, k) }

\* display_removed of a live display leaves the windows as they are, and the
\* pass that follows styles a tag occupied only for a window on the display of
\* the tag's slot, which is not the removed display
C29_RemovedKeepsWindows ==
    \A id \in EvDisplayIds :
        ( /\ Str(id) \in Live
          /\ pass' = "reconcile"
          /\ displays' = Pop(displays, Str(id))
          /\ DisplayRemoved({id}) )
          => /\ windows' = windows
             /\ \E sets \in { SetCmds' } :
                   \A i \in DOMAIN sets :
                       /\ slot_assignment'[sets[i].slot] # Str(id)
                       /\ sets[i].class = "occupied"
                            => sets[i].tag \in Carried(slot_assignment'[sets[i].slot])

\* display_added of a display that is not live, on which windows are still
\* recorded, styles the tags of those windows occupied where they are not
\* visible
C29_ReaddedCountsWindows ==
    \A id \in EvDisplayIds :
        ( /\ Str(id) \notin Live
          /\ pass' = "reconcile"
          /\ DOMAIN displays' = Live \cup { Str(id) }
          /\ displays' = Put(displays, Str(id), displays'[Str(id)])
          /\ DisplayUpsert({id}, EvTagMasks, BOOLEAN) )
          => /\ windows' = windows
             /\ \E sets \in { SetCmds' } :
                   \A s \in DOMAIN slot_assignment', k \in Carried(Str(id)) :
                       ( /\ slot_assignment'[s] = Str(id)
                         /\ ~ Bit(displays'[Str(id)].visible_tags, k) )
                         => \E i \in DOMAIN sets :
                               /\ sets[i].slot = s /\ sets[i].tag = k
                               /\ sets[i].class = "occupied"

\* C29: display_removed leaves every Window record unchanged, including the
\* windows whose output_id is the removed display.  Those windows contribute
\* to no slot while the display is absent, and if a display with the same
\* identity is added again their tags count as occupied on it without any new
\* window event.
C29_WindowsOutliveDisplay ==
    [][ C29_RemovedKeepsWindows /\ C29_ReaddedCountsWindows ]_vars

\* C29 witness: display 9 has just been added, with no tag visible, while a
\* window recorded on it carries tag 2, and the pass has styled tag 2 of its
\* slot occupied.
C29_Witness ==
    /\ pass = "reconcile"
    /\ cmds = << AddCmd(2, Str(9), "default") >>
    /\ slot_assignment = << Str(1), Str(9) >>
    /\ displays[Str(9)].visible_tags = 0
    /\ windows = (Str(1) :> [ tags |-> 2, output_id |-> Str(9) ])
    /\ \E i \in DOMAIN SetCmds :
          SetCmds[i].slot = 2 /\ SetCmds[i].tag = 2 /\ SetCmds[i].class = "occupied"

\* the label that the element name shows, << >> when there is no such element
Shown(name) ==
    IF name \in Names(bar) THEN (CHOOSE e \in bar : e.name = name).label ELSE << >>

\* C30: in the island and unified-transparent plugins, while the now-playing
\* section is visible every set command of update_np targets an element that
\* was added when the section was created: "bar.np.artist" is set only if
\* add_np_section added it in the current visibility period, and the artist
\* shown is the artist of the latest sample.
C30_SetsTargetSectionElements ==
    np_visible
      => /\ \A i \in DOMAIN np_cmds :
               np_cmds[i].op = "set" => np_cmds[i].name \in Names(bar)
         /\ Shown("bar.np.artist") = truncate(np_sample[2], MAX_ARTIST_LEN)

====
